---------------------------- MODULE Spec2Model ----------------------------
(***************************************************************************)
(* A model of the Crossref data-extraction pipeline:                       *)
(*   src/src/main.py                      process_papers, save_results     *)
(*   src/src/api/crossref_client.py       get_metadata, download_pdf,      *)
(*                                        extract_paper_info               *)
(*   src/src/extractors/llm_extractor.py  extract_properties,              *)
(*                                        extract_from_paper               *)
(*   src/src/models/schemas.py            the pydantic models              *)
(*                                                                         *)
(* Representation.  A Python str is a sequence of tokens (TLA+ strings);   *)
(* the characters a conversion looks at (digits, ",", ".", "/", " ") are   *)
(* tokens of their own.  A JSON / Python value is a tagged record:         *)
(*   [t |-> "null"]              None / null                               *)
(*   [t |-> "num", m, e]         the number m / 10^e                       *)
(*   [t |-> "str", s]            a str, s its tokens                       *)
(*   [t |-> "arr", a]            a list, a the sequence of its elements    *)
(*   [t |-> "obj", o]            a dict, o the sequence of its <<key,      *)
(*                               value>> pairs in insertion order          *)
(***************************************************************************)
EXTENDS Integers, Sequences, FiniteSets, TLC

(***************************************************************************)
(* Bounds of the model.                                                    *)
(***************************************************************************)
MaxPapers == 2      \* longest PAPERS list explored
MaxRecs == 2        \* longest array of raw records in a reasoning-service reply
MaxDownloads == 2   \* longest PAPERS list explored with the browser in full

(***************************************************************************)
(* Python values.                                                          *)
(***************************************************************************)
None == [t |-> "null"]
JNum(m, e) == [t |-> "num", m |-> m, e |-> e]
JStr(s) == [t |-> "str", s |-> s]
JArr(a) == [t |-> "arr", a |-> a]
JObj(o) == [t |-> "obj", o |-> o]

\* k in d
HasKey(d, k) == \E i \in 1..Len(d) : d[i][1] = k

\* d[k], for a key that is present
Item(d, k) == d[CHOOSE i \in 1..Len(d) : d[i][1] = k][2]

\* d.get(k, default)
Get(d, k, default) == IF HasKey(d, k) THEN Item(d, k) ELSE default

\* d[k] = v : an existing key keeps its position, a new key goes last
SetItem(d, k, v) ==
    IF HasKey(d, k)
    THEN [i \in 1..Len(d) |-> IF d[i][1] = k THEN <<k, v>> ELSE d[i]]
    ELSE Append(d, <<k, v>>)

\* str.replace(old, new) for a one-token old; new is a token sequence
RECURSIVE Replace(_, _, _)
Replace(s, old, new) ==
    IF s = <<>> THEN <<>>
    ELSE (IF Head(s) = old THEN new ELSE <<Head(s)>>) \o Replace(Tail(s), old, new)

\* old in s, for a one-token old
Contains(s, old) == \E i \in 1..Len(s) : s[i] = old

\* str.strip() / float()'s own trimming: leading and trailing blanks go
RECURSIVE LStrip(_)
LStrip(s) == IF s # <<>> /\ Head(s) = " " THEN LStrip(Tail(s)) ELSE s

RECURSIVE RStrip(_)
RStrip(s) ==
    IF s # <<>> /\ s[Len(s)] = " " THEN RStrip(SubSeq(s, 1, Len(s) - 1)) ELSE s

Strip(s) == RStrip(LStrip(s))

Digits == <<"0", "1", "2", "3", "4", "5", "6", "7", "8", "9">>
IsDigit(c) == \E d \in 1..10 : Digits[d] = c
DigitVal(c) == (CHOOSE d \in 1..10 : Digits[d] = c) - 1

\* str(n) for an int n >= 0
RECURSIVE IntToStr(_)
IntToStr(n) ==
    IF n < 10 THEN <<Digits[n + 1]>>
    ELSE IntToStr(n \div 10) \o <<Digits[(n % 10) + 1]>>

\* m / 10^e without trailing fractional zeros: 12.50 and 12.5 are one float
RECURSIVE Normal(_, _)
Normal(m, e) == IF e > 0 /\ m % 10 = 0 THEN Normal(m \div 10, e - 1) ELSE JNum(m, e)

\* The digits of s read as one decimal integer.
RECURSIVE DigitsVal(_, _)
DigitsVal(s, acc) ==
    IF s = <<>> THEN acc ELSE DigitsVal(Tail(s), 10 * acc + DigitVal(Head(s)))

(***************************************************************************)
(* float(s) on the strings of the model: blanks trimmed, an optional sign, *)
(* digits with at most one ".", at least one digit.  Anything else is a    *)
(* ValueError.  (Exponents, "inf", "nan" and "_" are outside the model's   *)
(* alphabet.)                                                              *)
(***************************************************************************)
ParseFloat(s) ==
    LET body == Strip(s)
        signed == body # <<>> /\ Head(body) \in {"-", "+"}
        mag == IF signed THEN Tail(body) ELSE body
        dots == {i \in 1..Len(mag) : mag[i] = "."}
        digs == SelectSeq(mag, IsDigit)
        wellformed == /\ \A i \in 1..Len(mag) : IsDigit(mag[i]) \/ mag[i] = "."
                      /\ Cardinality(dots) <= 1
                      /\ digs # <<>>
        frac == IF dots = {} THEN 0 ELSE Len(mag) - (CHOOSE i \in dots : TRUE)
        val == DigitsVal(digs, 0)
    IN  IF ~wellformed THEN [ok |-> FALSE, v |-> None]
        ELSE [ok |-> TRUE,
              v |-> Normal(IF signed /\ Head(body) = "-" THEN 0 - val ELSE val, frac)]

(***************************************************************************)
(* models/schemas.py: MechanicalProperty.  Pydantic validates the keyword   *)
(* arguments field by field; unknown keys are ignored.                      *)
(***************************************************************************)
Missing == [t |-> "missing"]      \* the key is not in the dict

Field(d, k) == Get(d, k, Missing)

\* a `str` field: only a str is accepted (numbers are not converted)
IsStr(v) == v.t = "str"

\* a `float` field: a number, or a str that reads as one
FloatOf(v) ==
    IF v.t = "num" THEN [ok |-> TRUE, v |-> Normal(v.m, v.e)]
    ELSE IF v.t = "str" THEN ParseFloat(v.s)
    ELSE [ok |-> FALSE, v |-> None]

\* Optional[float] = None
OptFloatOf(v) == IF v.t \in {"missing", "null"} THEN [ok |-> TRUE, v |-> None] ELSE FloatOf(v)

\* Optional[str] = None
OptStrOk(v) == v.t \in {"missing", "null", "str"}
OptStrOf(v) == IF v.t = "missing" THEN None ELSE v

\* Optional[Dict[str, Any]] with default_factory=dict
OptDictOk(v) == v.t \in {"missing", "null", "obj"}
OptDictOf(v) == IF v.t = "missing" THEN JObj(<<>>) ELSE v

\* MechanicalProperty(**d): ok, and the model instance when ok
MechanicalProperty(d) ==
    LET material == Field(d, "material")
        condition == Field(d, "condition")
        property_name == Field(d, "property_name")
        value == FloatOf(Field(d, "value"))
        unit == Field(d, "unit")
        temperature == OptFloatOf(Field(d, "temperature"))
        temperature_unit == Field(d, "temperature_unit")
        strain_rate == OptFloatOf(Field(d, "strain_rate"))
        additional_info == Field(d, "additional_info")
        ok == /\ IsStr(material)
              /\ OptStrOk(condition)
              /\ IsStr(property_name)
              /\ value.ok
              /\ IsStr(unit)
              /\ temperature.ok
              /\ OptStrOk(temperature_unit)
              /\ strain_rate.ok
              /\ OptDictOk(additional_info)
    IN  IF ~ok THEN [ok |-> FALSE, v |-> None]
        ELSE [ok |-> TRUE,
              v |-> [material |-> material,
                     condition |-> OptStrOf(condition),
                     property_name |-> property_name,
                     value |-> value.v,
                     unit |-> unit,
                     temperature |-> temperature.v,
                     temperature_unit |-> OptStrOf(temperature_unit),
                     strain_rate |-> strain_rate.v,
                     additional_info |-> OptDictOf(additional_info)]]

(***************************************************************************)
(* tenacity: @retry(stop=stop_after_attempt(3), wait=wait_exponential(..)) *)
(* What the wrapper does after attempt number `attempt` of the wrapped     *)
(* function: hand back its value, call it again, or give up (RetryError).  *)
(***************************************************************************)
stop_after_attempt == 3

\* no retry at all: the first exception is the call's
RetryDecisionOnce(attempt, raised) == IF raised THEN "raise" ELSE "return"

\* one attempt too many before giving up
RetryDecisionOffByOne(attempt, raised) ==
    IF ~raised THEN "return"
    ELSE IF attempt > stop_after_attempt THEN "raise"
    ELSE "retry"

RetryDecision(attempt, raised) ==
    IF ~raised THEN "return"
    ELSE IF attempt >= stop_after_attempt THEN "raise"
    ELSE "retry"

(***************************************************************************)
(* extractors/llm_extractor.py: extract_properties.                        *)
(* What one call of the reasoning service can come to:                     *)
(*   [k |-> "error"]       client.chat.completions.create raised           *)
(*   [k |-> "malformed"]   the content is not JSON: json.loads raises      *)
(*   [k |-> "json", v]     the content parses to the value v               *)
(***************************************************************************)
ServiceError == [k |-> "error"]
Malformed == [k |-> "malformed"]
Json(v) == [k |-> "json", v |-> v]

\* for value in data.values(): if isinstance(value, list): return value
RECURSIVE FirstArrayValue(_)
FirstArrayValue(o) ==
    IF o = <<>> THEN [found |-> FALSE, v |-> None]
    ELSE IF Head(o)[2].t = "arr" THEN [found |-> TRUE, v |-> Head(o)[2]]
    ELSE FirstArrayValue(Tail(o))

\* the shapes without the `elif isinstance(data, list)` branch
ResponseShapeDictOnly(data) ==
    IF data.t = "obj"
    THEN IF HasKey(data.o, "properties") THEN Item(data.o, "properties")
         ELSE IF HasKey(data.o, "data") THEN Item(data.o, "data")
         ELSE IF FirstArrayValue(data.o).found THEN FirstArrayValue(data.o).v
         ELSE JArr(<<>>)
    ELSE JArr(<<>>)

\* lines 120-135: the value returned for the parsed document `data`
ResponseShape(data) ==
    IF data.t = "obj"
    THEN IF HasKey(data.o, "properties") THEN Item(data.o, "properties")
         ELSE IF HasKey(data.o, "data") THEN Item(data.o, "data")
         ELSE IF FirstArrayValue(data.o).found THEN FirstArrayValue(data.o).v
         ELSE JArr(<<>>)
    ELSE IF data.t = "arr" THEN data
    ELSE JArr(<<>>)

\* The decorated function's body for one call of the service: the try block
\* and its `except Exception: return []`.  It never raises.
extract_properties_body(reply) ==
    IF reply.k = "json"
    THEN [raised |-> FALSE, v |-> ResponseShape(reply.v)]
    ELSE [raised |-> FALSE, v |-> JArr(<<>>)]

\* The decorated function: replies[n] is what the service does on call n.
\* The value, and the number of calls of the service that were made.
RECURSIVE Retrying_extract_properties(_, _)
Retrying_extract_properties(replies, attempt) ==
    LET r == extract_properties_body(replies[attempt])
        d == RetryDecision(attempt, r.raised)
    IN  IF d = "return" THEN [raised |-> FALSE, v |-> r.v, calls |-> attempt]
        ELSE IF d = "retry" THEN Retrying_extract_properties(replies, attempt + 1)
        ELSE [raised |-> TRUE, v |-> None, calls |-> attempt]

extract_properties(replies) == Retrying_extract_properties(replies, 1)

(***************************************************************************)
(* extractors/llm_extractor.py: extract_from_paper, lines 162-183.         *)
(***************************************************************************)
\* `for prop in raw_properties`: a list gives its elements, a str its
\* pieces (each a str), a dict its keys; None and numbers are a TypeError.
Iterate(raw) ==
    IF raw.t = "arr" THEN [ok |-> TRUE, items |-> raw.a]
    ELSE IF raw.t = "str"
         THEN [ok |-> TRUE, items |-> [i \in 1..Len(raw.s) |-> JStr(<<raw.s[i]>>)]]
    ELSE IF raw.t = "obj"
         THEN [ok |-> TRUE, items |-> [i \in 1..Len(raw.o) |-> JStr(<<raw.o[i][1]>>)]]
    ELSE [ok |-> FALSE, items |-> <<>>]

\* The body of the loop's try block for one element: the element is turned
\* into a MechanicalProperty, or an exception is raised (ok = FALSE).
ConvertProperty(prop) ==
    IF prop.t # "obj" THEN [ok |-> FALSE, v |-> None]      \* no .get: AttributeError
    ELSE LET value == Get(prop.o, "value", None)
         IN  IF value.t = "str"
             THEN LET f == ParseFloat(Replace(value.s, ",", <<>>))
                  IN  IF ~f.ok THEN [ok |-> FALSE, v |-> None]       \* ValueError
                      ELSE MechanicalProperty(SetItem(prop.o, "value", f.v))
             ELSE MechanicalProperty(prop.o)

\* a loop that stops at the first element that raises (`break`)
RECURSIVE ConvertPropertiesUntilError(_)
ConvertPropertiesUntilError(items) ==
    IF items = <<>> THEN <<>>
    ELSE LET c == ConvertProperty(Head(items))
         IN  IF c.ok THEN <<c.v>> \o ConvertPropertiesUntilError(Tail(items)) ELSE <<>>

\* The loop: an element that raises is skipped (`continue`), the others are
\* appended in order.
RECURSIVE ConvertProperties(_)
ConvertProperties(items) ==
    IF items = <<>> THEN <<>>
    ELSE LET c == ConvertProperty(Head(items))
         IN  (IF c.ok THEN <<c.v>> ELSE <<>>) \o ConvertProperties(Tail(items))

\* extract_from_paper.  text_ok: extract_text_from_pdf returned (it raises on
\* a file that is no readable PDF).  The result is the ExtractedData, or an
\* exception; raw and calls record what extract_properties returned and how
\* many calls of the service it made.
extract_from_paper(text_ok, replies, paper_metadata) ==
    IF ~text_ok
    THEN [raised |-> TRUE, v |-> None, raw |-> None, calls |-> 0]
    ELSE LET ep == extract_properties(replies)
             it == Iterate(ep.v)
         IN  IF ep.raised \/ ~it.ok
             THEN [raised |-> TRUE, v |-> None, raw |-> ep.v, calls |-> ep.calls]
             ELSE [raised |-> FALSE,
                   v |-> [paper_metadata |-> paper_metadata,
                          mechanical_properties |-> ConvertProperties(it.items),
                          extraction_method |-> "llm"],
                   raw |-> ep.v,
                   calls |-> ep.calls]

(***************************************************************************)
(* api/crossref_client.py: get_metadata, one attempt (lines 47-54).        *)
(* What one request to the catalog can come to:                            *)
(*   [k |-> "neterr"]                  session.get raised                  *)
(*   [k |-> "http", status, body]      a response; body is Malformed or    *)
(*                                     Json(v)                             *)
(***************************************************************************)
NetErr == [k |-> "neterr"]
Http(status, body) == [k |-> "http", status |-> status, body |-> body]

Prefix == "https://doi.org/"

\* doi.replace("https://doi.org/", "")
CleanDoi(doi) == Replace(doi, Prefix, <<>>)

\* response.raise_for_status(): HTTPError for a 4xx or 5xx status
RaisesForStatus(status) == 400 <= status /\ status < 600

\* The decorated function's body for one response: the `message` of the
\* envelope, or an exception.
get_metadata_body(resp) ==
    IF resp.k = "neterr" THEN [raised |-> TRUE, v |-> None]
    ELSE IF RaisesForStatus(resp.status) THEN [raised |-> TRUE, v |-> None]
    ELSE IF resp.body.k # "json" THEN [raised |-> TRUE, v |-> None]      \* response.json()
    ELSE IF resp.body.v.t # "obj" \/ ~HasKey(resp.body.v.o, "message")
         THEN [raised |-> TRUE, v |-> None]                              \* ["message"]
    ELSE [raised |-> FALSE, v |-> Item(resp.body.v.o, "message")]

(***************************************************************************)
(* api/crossref_client.py: extract_paper_info (lines 244-261).             *)
(***************************************************************************)
\* Python truthiness
Truthy(v) ==
    IF v.t = "arr" THEN v.a # <<>>
    ELSE IF v.t = "str" THEN v.s # <<>>
    ELSE IF v.t = "obj" THEN v.o # <<>>
    ELSE IF v.t = "num" THEN v.m # 0
    ELSE FALSE

EmptyStr == JStr(<<>>)

\* f"{author.get('given', '')} {author.get('family', '')}".strip()
AuthorName(author) ==
    Strip(Get(author.o, "given", EmptyStr).s \o <<" ">> \o Get(author.o, "family", EmptyStr).s)

RECURSIVE AuthorNames(_)
AuthorNames(list) ==
    IF list = <<>> THEN <<>>
    ELSE (IF AuthorName(Head(list)) # <<>> THEN <<JStr(AuthorName(Head(list)))>> ELSE <<>>)
         \o AuthorNames(Tail(list))

\* metadata.get(key, [""])[0] if metadata.get(key) else ""
FirstOrEmpty(metadata, key) ==
    IF Truthy(Get(metadata, key, None)) THEN Get(metadata, key, None).a[1] ELSE EmptyStr

\* metadata.get("published-print", {}).get("date-parts", [[None]])
DateParts(metadata) ==
    Get(Get(metadata, "published-print", JObj(<<>>)).o, "date-parts", JArr(<<JArr(<<None>>)>>))

\* The dict returned, or the IndexError of [0] on an empty date-parts list.
extract_paper_info(metadata) ==
    IF DateParts(metadata).a = <<>> THEN [raised |-> TRUE, v |-> None]
    ELSE [raised |-> FALSE,
          v |-> [doi |-> Get(metadata, "DOI", EmptyStr),
                 title |-> FirstOrEmpty(metadata, "title"),
                 authors |-> IF HasKey(metadata, "author")
                             THEN AuthorNames(Item(metadata, "author").a)
                             ELSE <<>>,
                 publication_date |-> DateParts(metadata).a[1],
                 journal |-> FirstOrEmpty(metadata, "container-title"),
                 publisher |-> Get(metadata, "publisher", EmptyStr),
                 abstract |-> Get(metadata, "abstract", EmptyStr)]]

(***************************************************************************)
(* main.py lines 59-66: the PaperMetadata built from extract_paper_info's  *)
(* dict.                                                                   *)
(***************************************************************************)
\* str(x) for None, an int and a str
PyStr(x) ==
    IF x.t = "null" THEN JStr(<<"None">>)
    ELSE IF x.t = "num" THEN JStr(IF x.m < 0 THEN <<"-">> \o IntToStr(0 - x.m) ELSE IntToStr(x.m))
    ELSE x

\* str(info['publication_date'][0]) if info['publication_date'] else None
PublicationDate(info) ==
    IF Truthy(info.publication_date) THEN PyStr(info.publication_date.a[1]) ELSE None

\* PaperMetadata(...): the instance, or pydantic's ValidationError
PaperMetadata(info) ==
    IF IsStr(info.doi) /\ IsStr(info.title) /\ OptStrOk(info.journal)
    THEN [raised |-> FALSE,
          v |-> [doi |-> info.doi,
                 title |-> info.title,
                 authors |-> info.authors,
                 publication_date |-> PublicationDate(info),
                 journal |-> info.journal]]
    ELSE [raised |-> TRUE, v |-> None]

\* Lines 56-66 together: the paper's PaperMetadata from the catalog message.
BuildPaperMetadata(metadata) ==
    LET info == extract_paper_info(metadata)
    IN  IF info.raised THEN [raised |-> TRUE, v |-> None] ELSE PaperMetadata(info.v)

(***************************************************************************)
(* Inputs: what the reasoning service and the catalog may answer.          *)
(***************************************************************************)
Str(tok) == JStr(<<tok>>)

\* a raw record with every required field, value a number
RecOk ==
    JObj(<< <<"material", Str("Mg-2Y")>>, <<"property_name", Str("UTS")>>,
            <<"value", JNum(200, 0)>>, <<"unit", Str("MPa")>> >>)

\* value a str with a thousands separator: "1,234.5"
RecComma ==
    JObj(<< <<"material", Str("Cu")>>, <<"condition", Str("SMAT")>>,
            <<"property_name", Str("YS")>>,
            <<"value", JStr(<<"1", ",", "2", "3", "4", ".", "5">>)>>,
            <<"unit", Str("MPa")>>, <<"note", Str("table 2")>> >>)

\* value a str that is no number: "n/a"
RecBadValue ==
    JObj(<< <<"material", Str("Cu")>>, <<"property_name", Str("HV")>>,
            <<"value", Str("n/a")>>, <<"unit", Str("HV")>> >>)

\* a required field (unit) is missing
RecNoUnit ==
    JObj(<< <<"material", Str("Mg-2Y")>>, <<"property_name", Str("EL")>>,
            <<"value", JNum(125, 1)>> >>)

\* every required field and a numeric value, but temperature is "room"
RecBadTemperature ==
    JObj(<< <<"material", Str("Mg-2Y")>>, <<"property_name", Str("UTS")>>,
            <<"value", JNum(310, 0)>>, <<"unit", Str("MPa")>>,
            <<"temperature", Str("room")>> >>)

\* an element of the array that is no object
RecNotDict == Str("see table 3")

RecordPool == {RecOk, RecComma, RecBadValue, RecNoUnit, RecBadTemperature, RecNotDict}

\* the sequences over S of length at most n
SeqsUpTo(S, n) == UNION {[1..k -> S] : k \in 0..n}

\* The documents of the reasoning service built on the arrays over `pool`:
\* the accepted shapes, and the others.
Bare(list) == JArr(list)
Wrapped(key, v) == JObj(<< <<key, v>> >>)
NoteThen(key, v) == JObj(<< <<"note", Str("2 tables")>>, <<key, v>> >>)

AcceptedDocs(pool) ==
    UNION {{Bare(l), Wrapped("properties", JArr(l)), Wrapped("data", JArr(l)),
            NoteThen("results", JArr(l))} : l \in SeqsUpTo(pool, MaxRecs)}

OtherDocs ==
    {JObj(<<>>), Wrapped("note", Str("no tables")), None, JNum(0, 0), Str("none"),
     Wrapped("properties", None), Wrapped("properties", Str("none")),
     Wrapped("properties", JNum(3, 0)), Wrapped("data", None),
     Wrapped("data", Wrapped("rows", JArr(<<RecOk>>)))}

Replies(pool) ==
    {ServiceError, Malformed} \cup {Json(d) : d \in AcceptedDocs(pool) \cup OtherDocs}

\* The catalog's `message` for an identifier.
Author(given, family) == JObj(<< <<"given", Str(given)>>, <<"family", Str(family)>> >>)
DateOf(parts) == JObj(<< <<"date-parts", JArr(parts)>> >>)

MsgCommon(doi) ==
    << <<"DOI", JStr(doi)>>, <<"title", JArr(<<Str("Effect of ECAP")>>)>>,
       <<"author", JArr(<<Author("A.", "Li"), JObj(<< <<"family", Str("Consortium")>> >>)>>)>>,
       <<"container-title", JArr(<<Str("Crystals")>>)>> >>

\* printed on 2019-11-08, with a landing page
MsgFull(doi) ==
    MsgCommon(doi) \o
    << <<"published-print", DateOf(<<JArr(<<JNum(2019, 0), JNum(11, 0), JNum(8, 0)>>)>>)>>,
       <<"URL", JStr(<<"http://dx.doi.org/">> \o doi)>> >>

\* printed on 2019-11-08, without a landing page
MsgNoUrl(doi) ==
    MsgCommon(doi) \o
    << <<"published-print", DateOf(<<JArr(<<JNum(2019, 0), JNum(11, 0), JNum(8, 0)>>)>>)>> >>

\* online only: no published-print, and no URL
MsgNoPrint(doi) == MsgCommon(doi)

\* published-print without date-parts
MsgNoDateParts(doi) == MsgCommon(doi) \o << <<"published-print", JObj(<<>>)>> >>

\* published-print with an empty date-parts list
MsgEmptyDateParts(doi) == MsgCommon(doi) \o << <<"published-print", DateOf(<<>>)>> >>

\* published-print whose first date-parts entry is empty
MsgEmptyDate(doi) == MsgCommon(doi) \o << <<"published-print", DateOf(<<JArr(<<>>)>>)>> >>

Messages(doi) ==
    {<<>>, MsgFull(doi), MsgNoPrint(doi), MsgNoDateParts(doi), MsgEmptyDateParts(doi),
     MsgEmptyDate(doi)}

(***************************************************************************)
(* The papers (main.py, PAPERS) and the files of the PDF directory.        *)
(***************************************************************************)
DoiCryst == <<Prefix, "10.3390", "/", "cryst9110586">>
DoiMet == <<Prefix, "10.3390", "/", "met14111217">>
\* an identifier given bare, of a publisher the fallback does not cover
DoiOther == <<"10.1016", "/", "j.msea.2020.139000">>

PAPERS == <<DoiCryst, DoiMet>>
DOIs == {DoiCryst, DoiMet, DoiOther}

\* doi_clean.replace("/", "_") + ".pdf"
Filename(doi_clean) == Replace(doi_clean, "/", <<"_">>) \o <<".pdf">>

(***************************************************************************)
(* The directory is the sequence of its files, oldest modification first.  *)
(* A file is [name, of, whole]: `of` the identifier its content was        *)
(* downloaded for, `whole` whether the content is a complete PDF.  The     *)
(* suffix is the last token of the name.                                   *)
(***************************************************************************)
File(name, of, whole) == [name |-> name, of |-> of, whole |-> whole]

Suffix(name) == name[Len(name)]

\* output_dir.glob("*" + suffix)
Glob(d, suffix) == SelectSeq(d, LAMBDA f : Suffix(f.name) = suffix)

\* list(glob("*.crdownload")) + list(glob("*.tmp"))
TempFiles(d) == Glob(d, ".crdownload") \o Glob(d, ".tmp")

Exists(d, name) == \E k \in 1..Len(d) : d[k].name = name

FileAt(d, name) == d[CHOOSE k \in 1..Len(d) : d[k].name = name]

Remove(d, name) == SelectSeq(d, LAMBDA f : f.name # name)

\* max(pdf_files, key=lambda p: p.stat().st_mtime)
Latest(files) == files[Len(files)]

\* latest_pdf.rename(output_path): the file keeps its content and its
\* modification time, and replaces a file already at the target
Rename(d, from, to) ==
    LET kept == IF from = to THEN d ELSE Remove(d, to)
    IN  [k \in 1..Len(kept) |->
            IF kept[k].name = from THEN [kept[k] EXCEPT !.name = to] ELSE kept[k]]

\* A file written now: it replaces a file of that name and is the newest.
Write(d, f) == Append(Remove(d, f.name), f)

\* The name the browser gives a download: the server's name for the paper,
\* made unique in the directory as the browser does ("name (1).pdf").
RECURSIVE Unique(_, _, _, _)
Unique(d, stem, n, suffix) ==
    LET name == IF n = 0 THEN stem \o <<suffix>>
                ELSE stem \o <<" (">> \o IntToStr(n) \o <<")", suffix>>
    IN  IF Exists(d, name) THEN Unique(d, stem, n + 1, suffix) ELSE name

BrowserPdfName(d, doi_clean) == Unique(d, <<"article-", doi_clean[Len(doi_clean)]>>, 0, ".pdf")
BrowserTempName(d) == Unique(d, <<"Unconfirmed">>, 0, ".crdownload")

(***************************************************************************)
(* main.py: save_results (lines 96-108).  The document written to          *)
(* output/results.json: unified.model_dump() as JSON, instants as strings. *)
(***************************************************************************)
RECURSIVE SumLens(_)
\* sum(len(r.mechanical_properties) for r in results)
SumLens(results) ==
    IF results = <<>> THEN 0
    ELSE Len(Head(results).mechanical_properties) + SumLens(Tail(results))

Instant == Str("<instant>")

DumpProperty(p) ==
    JObj(<< <<"material", p.material>>, <<"condition", p.condition>>,
            <<"property_name", p.property_name>>, <<"value", p.value>>,
            <<"unit", p.unit>>, <<"temperature", p.temperature>>,
            <<"temperature_unit", p.temperature_unit>>,
            <<"strain_rate", p.strain_rate>>,
            <<"additional_info", p.additional_info>> >>)

DumpPaperMetadata(m) ==
    JObj(<< <<"doi", m.doi>>, <<"title", m.title>>, <<"authors", JArr(m.authors)>>,
            <<"publication_date", m.publication_date>>, <<"journal", m.journal>> >>)

DumpExtractedData(r) ==
    JObj(<< <<"paper_metadata", DumpPaperMetadata(r.paper_metadata)>>,
            <<"mechanical_properties",
              JArr([k \in 1..Len(r.mechanical_properties) |->
                       DumpProperty(r.mechanical_properties[k])])>>,
            <<"extraction_timestamp", Instant>>,
            <<"extraction_method", Str(r.extraction_method)>> >>)

\* the number of papers where the number of properties is meant
TotalPropertiesAsPapers(results) == Len(results)

\* total_properties, as save_results computes it
TotalProperties(results) == SumLens(results)

save_results(results) ==
    JObj(<< <<"extraction_date", Instant>>,
            <<"papers_processed", JNum(Len(results), 0)>>,
            <<"total_properties_extracted", JNum(TotalProperties(results), 0)>>,
            <<"data", JArr([k \in 1..Len(results) |-> DumpExtractedData(results[k])])>> >>)

(***************************************************************************)
(* The state of a run of main().                                           *)
(***************************************************************************)
VARIABLES
    papers,             \* PAPERS: the identifiers to process, in order
    i,                  \* process_papers: index of the paper being processed
    pc,                 \* the position of the run
    results,            \* process_papers: results
    visited,            \* history: per paper taken from PAPERS, where it ended
    attempt_number,     \* get_metadata: tenacity's attempt number in this call
    gm_caller,          \* get_metadata: who called it
    gm_log,             \* history: the requests of this call, [resp, raised]
    gm_ret,             \* get_metadata: what the call came to
    paper_metadata,     \* process_papers: paper_metadata
    driver,             \* download_pdf: "None", "live" or "quit"
    quits,              \* history: driver.quit() calls in this download_pdf
    download_clicked,   \* download_pdf: download_clicked
    wait_time,          \* download_pdf: wait_time
    temp_files,         \* download_pdf: temp_files is non-empty
    downloading,        \* the browser of this call has a download in progress
    left,               \* download_pdf: how the try block was left
    pdf_path,           \* process_papers: pdf_path
    fb_get,             \* history: what the fallback's GET of the PDF came to
    dir,                \* the files of data/pdfs
    unified,            \* the document in output/results.json
    u_stage, u_reply, u_message, u_extracted, u_metadata    \* function checks

pipeline_vars ==
    <<papers, i, pc, results, visited, attempt_number, gm_caller, gm_log, gm_ret,
      paper_metadata, driver, quits, download_clicked, wait_time, temp_files,
      downloading, left, pdf_path, fb_get, dir, unified>>

unit_vars == <<u_stage, u_reply, u_message, u_extracted, u_metadata>>

vars == <<pipeline_vars, unit_vars>>

max_wait == 30

Path(name) == [t |-> "path", p |-> name]

NoCall == [raised |-> FALSE, v |-> None]

\* The locals of one paper's iteration, before it starts.
Fresh ==
    /\ attempt_number = 0
    /\ gm_caller = "none"
    /\ gm_log = <<>>
    /\ gm_ret = NoCall
    /\ paper_metadata = None
    /\ driver = "None"
    /\ quits = 0
    /\ download_clicked = FALSE
    /\ wait_time = 0
    /\ temp_files = FALSE
    /\ downloading = FALSE
    /\ left = "none"
    /\ pdf_path = None
    /\ fb_get = "none"

UnitOff ==
    /\ u_stage = {}
    /\ u_reply = ServiceError
    /\ u_message = <<>>
    /\ u_extracted = None
    /\ u_metadata = None

doi_clean == CleanDoi(papers[i])
filename == Filename(doi_clean)

gm_vars == <<attempt_number, gm_caller, gm_log, gm_ret>>
dl_vars == <<driver, quits, download_clicked, wait_time, temp_files, downloading, left>>

(***************************************************************************)
(* What the catalog may answer to a request for an identifier.             *)
(***************************************************************************)
Envelope(message) == JObj(<< <<"status", Str("ok")>>, <<"message", JObj(message)>> >>)

CatalogResponses(doi) ==
    {NetErr, Http(404, Malformed), Http(500, Malformed), Http(200, Malformed),
     Http(200, Json(Wrapped("status", Str("ok"))))}
    \cup {Http(200, Json(Envelope(m))) : m \in {MsgFull(doi), MsgNoPrint(doi)}}

(***************************************************************************)
(* main.py: process_papers (lines 45-86).                                  *)
(***************************************************************************)
\* The end of one pass of the loop: `continue`, or the end of its body.
\* stage is where the paper ended, data its ExtractedData when there is one.
EndPaperAt(stage, data, new_results, next_i) ==
    /\ visited' = Append(visited, [doi |-> papers[i], stage |-> stage, data |-> data])
    /\ results' = new_results
    /\ i' = next_i
    /\ pc' = "pp_loop"
    /\ attempt_number' = 0
    /\ gm_caller' = "none"
    /\ gm_log' = <<>>
    /\ gm_ret' = NoCall
    /\ paper_metadata' = None
    /\ driver' = "None"
    /\ quits' = 0
    /\ download_clicked' = FALSE
    /\ wait_time' = 0
    /\ temp_files' = FALSE
    /\ downloading' = FALSE
    /\ left' = "none"
    /\ pdf_path' = None
    /\ fb_get' = "none"
    /\ UNCHANGED <<papers, dir, unified, unit_vars>>

EndPaper(stage, data, new_results) == EndPaperAt(stage, data, new_results, i + 1)

\* a handler that ends the loop (`break`) where the code has `continue`
HandlerBreaks(stage) == EndPaperAt(stage, None, results, Len(papers) + 1)

\* `except Exception as e: ... continue` (lines 82-84)
HandlerContinues(stage) == EndPaper(stage, None, results)

\* line 55: crossref_client.get_metadata(paper_info['doi'])
ProcessNext ==
    /\ pc = "pp_loop"
    /\ i <= Len(papers)
    /\ pc' = "gm_attempt"
    /\ attempt_number' = 1
    /\ gm_caller' = "process_papers"
    /\ gm_log' = <<>>
    /\ UNCHANGED <<fb_get, papers, i, results, visited, gm_ret, paper_metadata, dl_vars,
                   pdf_path, dir, unified, unit_vars>>

\* where get_metadata returns to
AfterGetMetadata == IF gm_caller = "process_papers" THEN "pp_info" ELSE "fb_got"

\* api/crossref_client.py: get_metadata (lines 37-54), one attempt under
\* the retry decorator, the catalog answering with one of `responses`.
GetMetadataAttemptFrom(responses) ==
    /\ pc = "gm_attempt"
    /\ \E resp \in responses :
         LET r == get_metadata_body(resp)
             d == RetryDecision(attempt_number, r.raised)
         IN  /\ gm_log' = Append(gm_log, [resp |-> resp, raised |-> r.raised])
             /\ IF d = "retry"
                THEN /\ attempt_number' = attempt_number + 1
                     /\ UNCHANGED <<pc, gm_ret>>
                ELSE /\ gm_ret' = IF d = "return" THEN r ELSE [raised |-> TRUE, v |-> None]
                     /\ pc' = AfterGetMetadata
                     /\ UNCHANGED attempt_number
    /\ UNCHANGED <<fb_get, papers, i, results, visited, gm_caller, paper_metadata, dl_vars,
                   pdf_path, dir, unified, unit_vars>>

\* lines 55-66: get_metadata has returned or raised; extract_paper_info and
\* PaperMetadata.  The locals of the finished call are dropped.
PaperInfo ==
    /\ pc = "pp_info"
    /\ IF gm_ret.raised
       THEN HandlerContinues("metadata")
       ELSE LET m == BuildPaperMetadata(gm_ret.v.o)
            IN  IF m.raised
                THEN HandlerContinues("paper_metadata")
                ELSE /\ paper_metadata' = m.v
                     /\ pc' = "dl_start"
                     /\ attempt_number' = 0
                     /\ gm_caller' = "none"
                     /\ gm_log' = <<>>
                     /\ gm_ret' = NoCall
                     /\ UNCHANGED <<fb_get, papers, i, results, visited, dl_vars, pdf_path, dir,
                                    unified, unit_vars>>

(***************************************************************************)
(* api/crossref_client.py: download_pdf (lines 91-191).                    *)
(***************************************************************************)
\* The try block is left: by `return output_path`, by falling off its end,
\* or by an exception (lines 183-184).  finally is next.  The locals of the
\* block are dropped.
LeaveTry(how) ==
    /\ left' = how
    /\ pc' = "dl_finally"
    /\ download_clicked' = FALSE
    /\ wait_time' = 0
    /\ temp_files' = FALSE

\* line 94: webdriver.Chrome(options=chrome_options)
CreateDriver ==
    /\ pc = "dl_start"
    /\ \E created \in BOOLEAN :
         IF created
         THEN /\ driver' = "live"
              /\ pc' = "dl_nav"
              /\ UNCHANGED <<left, download_clicked, wait_time, temp_files>>
         ELSE LeaveTry("except") /\ UNCHANGED driver
    /\ UNCHANGED <<fb_get, papers, i, results, visited, gm_vars, paper_metadata, quits,
                   downloading, pdf_path, dir, unified, unit_vars>>

\* line 99: driver.get(doi_url)
Navigate ==
    /\ pc = "dl_nav"
    /\ \E loaded \in BOOLEAN :
         IF loaded
         THEN pc' = "dl_click" /\ UNCHANGED <<left, download_clicked, wait_time, temp_files>>
         ELSE LeaveTry("except")
    /\ UNCHANGED <<fb_get, papers, i, results, visited, gm_vars, paper_metadata, driver, quits,
                   downloading, pdf_path, dir, unified, unit_vars>>

\* lines 113-141: the dropdown, then the five selectors in order; every
\* exception in there is caught.  What was clicked, if anything.
ClickOutcomes == {"dropdown", "selector1", "selector2", "selector3", "selector4",
                  "selector5", "none"}

Click ==
    /\ pc = "dl_click"
    /\ \E c \in ClickOutcomes :
         /\ download_clicked' = (c # "none")
         /\ pc' = IF c # "none" THEN "dl_sleep" ELSE "dl_direct"
    /\ UNCHANGED <<fb_get, papers, i, results, visited, gm_vars, paper_metadata, driver, quits,
                   wait_time, temp_files, downloading, left, pdf_path, dir, unified,
                   unit_vars>>

\* lines 143-150: nothing was clicked; the PDF URL of an mdpi.com page
MdpiUrl == <<"https://www.", "mdpi.com", "/2073-4352/9/11/586">>
OtherUrl == <<"https://www.", "sciencedirect.com", "/science/article/pii/S0921509320">>

DirectPdfUrl ==
    /\ pc = "dl_direct"
    /\ \E current_url \in {MdpiUrl, OtherUrl}, raises \in BOOLEAN :
         IF raises THEN LeaveTry("except")
         ELSE IF Contains(current_url, "mdpi.com")
         THEN /\ download_clicked' = TRUE
              /\ pc' = "dl_sleep"
              /\ UNCHANGED <<left, wait_time, temp_files>>
         ELSE LeaveTry("fall")
    /\ UNCHANGED <<fb_get, papers, i, results, visited, gm_vars, paper_metadata, driver, quits,
                   downloading, pdf_path, dir, unified, unit_vars>>

\* lines 152-160: time.sleep(5), during which the browser downloads nothing,
\* starts a download (an in-progress marker) or completes one; then the
\* first look for markers.
AfterClickWith(browsers) ==
    /\ pc = "dl_sleep"
    /\ \E browser \in browsers :
         /\ dir' = IF browser = "started"
                   THEN Append(dir, File(BrowserTempName(dir), doi_clean, FALSE))
                   ELSE IF browser = "completed"
                   THEN Append(dir, File(BrowserPdfName(dir, doi_clean), doi_clean, TRUE))
                   ELSE dir
         /\ downloading' = (browser = "started")
    /\ temp_files' = (TempFiles(dir') # <<>>)
    /\ wait_time' = 0
    /\ pc' = "dl_poll"
    /\ UNCHANGED <<fb_get, papers, i, results, visited, gm_vars, paper_metadata, driver, quits,
                   download_clicked, left, pdf_path, unified, unit_vars>>

\* the marker of the download in progress: the newest one
LiveMarker == Latest(Glob(dir, ".crdownload")).name

\* the download in progress completes: its marker goes, the PDF appears
Completed ==
    LET d == Remove(dir, LiveMarker)
    IN  Append(d, File(BrowserPdfName(d, doi_clean), doi_clean, TRUE))

\* a loop that goes round once more: `<=` where the code has `<`
WaitingOneMore == temp_files /\ wait_time <= max_wait

\* line 162: the condition of the wait loop
Waiting == temp_files /\ wait_time < max_wait

\* lines 162-165: one pass of the wait loop
Poll ==
    /\ pc = "dl_poll"
    /\ Waiting
    /\ \E browser \in {"waiting", "completed", "error"} :
         /\ browser = "completed" => downloading
         /\ IF browser = "error"
            THEN LeaveTry("except") /\ UNCHANGED <<dir, downloading>>
            ELSE /\ dir' = IF browser = "completed" THEN Completed ELSE dir
                 /\ downloading' = (downloading /\ browser # "completed")
                 /\ wait_time' = wait_time + 1
                 /\ temp_files' = (TempFiles(dir') # <<>>)
                 /\ UNCHANGED <<pc, left, download_clicked>>
    /\ UNCHANGED <<fb_get, papers, i, results, visited, gm_vars, paper_metadata, driver, quits,
                   pdf_path, unified, unit_vars>>

\* line 162: the loop is over
LoopExit ==
    /\ pc = "dl_poll"
    /\ ~Waiting
    /\ pc' = "dl_select"
    /\ UNCHANGED <<fb_get, papers, i, results, visited, gm_vars, paper_metadata, dl_vars,
                   pdf_path, dir, unified, unit_vars>>

\* lines 167-181: the newest PDF of the directory is taken
SelectPdf ==
    /\ pc = "dl_select"
    /\ LET pdf_files == Glob(dir, ".pdf")
       IN  \E raises \in BOOLEAN :
             IF raises THEN LeaveTry("except") /\ UNCHANGED <<dir, pdf_path>>
             ELSE IF pdf_files # <<>>
             THEN /\ dir' = IF Latest(pdf_files).name # filename
                            THEN Rename(dir, Latest(pdf_files).name, filename)
                            ELSE dir
                  /\ pdf_path' = Path(filename)
                  /\ LeaveTry("return")
             ELSE LeaveTry("fall") /\ UNCHANGED <<dir, pdf_path>>
    /\ UNCHANGED <<fb_get, papers, i, results, visited, gm_vars, paper_metadata, driver, quits,
                   downloading, unified, unit_vars>>

\* a quit that `return output_path` skips: quit after the try statement
\* instead of in its finally clause
QuitsDriverUnlessReturning(drv, how) == drv # "None" /\ how # "return"

\* lines 186-188: `if driver: driver.quit()`, however the try block was left
QuitsDriver(drv, how) == drv # "None"

\* an exception of the try block ends download_pdf: the fallback is called
\* only where the block fell off its end
AfterFinallyNoFallbackOnException(how) == IF how = "fall" THEN "fb_start" ELSE "pp_extract"

\* lines 179 and 191: after finally, the pending `return output_path`
\* returns to process_papers; otherwise the fallback is called
AfterFinally(how) == IF how = "return" THEN "pp_extract" ELSE "fb_start"

\* finally, then `return output_path` or the fallback (line 191).  A browser
\* that is quit with a download in progress may leave its marker behind.
Finally ==
    /\ pc = "dl_finally"
    /\ driver' = IF QuitsDriver(driver, left) THEN "quit" ELSE driver
    /\ quits' = IF QuitsDriver(driver, left) THEN quits + 1 ELSE quits
    /\ \E marker_stays \in BOOLEAN :
         dir' = IF downloading /\ ~marker_stays THEN Remove(dir, LiveMarker) ELSE dir
    /\ downloading' = FALSE
    /\ pc' = AfterFinally(left)
    /\ UNCHANGED <<fb_get, papers, i, results, visited, gm_vars, paper_metadata,
                   download_clicked, wait_time, temp_files, left, pdf_path, unified,
                   unit_vars>>

(***************************************************************************)
(* api/crossref_client.py: _download_pdf_requests_fallback (193-233).      *)
(***************************************************************************)
\* line 204, and line 207: self.get_metadata(doi)
Fallback ==
    /\ pc = "fb_start"
    /\ IF Contains(doi_clean, "10.3390")
       THEN /\ pc' = "gm_attempt"
            /\ attempt_number' = 1
            /\ gm_caller' = "fallback"
            /\ gm_log' = <<>>
            /\ UNCHANGED pdf_path
       ELSE /\ pc' = "pp_extract"
            /\ pdf_path' = None
            /\ UNCHANGED <<attempt_number, gm_caller, gm_log>>
    /\ UNCHANGED <<fb_get, papers, i, results, visited, gm_ret, paper_metadata, dl_vars, dir,
                   unified, unit_vars>>

\* What the streamed GET of the PDF URL may come to:
\*   neterr   session.get raised              status   a 4xx/5xx answer
\*   pdf      the PDF, written in full        page     a 200 answer that is no PDF
\*   broken   the stream broke after the file was opened
PdfGets == {"neterr", "status", "pdf", "page", "broken"}

\* lines 209-233.  The locals of the get_metadata call are dropped.
FallbackDownloadWith(gets) ==
    /\ pc = "fb_got"
    /\ IF gm_ret.raised \/ ~HasKey(gm_ret.v.o, "URL")
       THEN pdf_path' = None /\ fb_get' = "none" /\ UNCHANGED dir
       ELSE \E get \in gets :
              /\ fb_get' = get
              /\ dir' = IF get \in {"pdf", "page", "broken"}
                        THEN Write(dir, File(filename, doi_clean, get = "pdf"))
                        ELSE dir
              /\ pdf_path' = IF get \in {"pdf", "page"} THEN Path(filename) ELSE None
    /\ pc' = "pp_extract"
    /\ attempt_number' = 0
    /\ gm_caller' = "none"
    /\ gm_log' = <<>>
    /\ gm_ret' = NoCall
    /\ UNCHANGED <<papers, i, results, visited, paper_metadata, dl_vars, unified,
                   unit_vars>>

(***************************************************************************)
(* main.py lines 72-84, with extract_from_paper.                           *)
(***************************************************************************)
\* extract_text_from_pdf returns on a complete PDF and raises on other content
TextOk(path) == FileAt(dir, path.p).whole

\* the service answers every call of one extract_properties the same way
Service(reply) == [n \in 1..stop_after_attempt |-> reply]

ExtractFrom(replies) ==
    /\ pc = "pp_extract"
    /\ IF pdf_path = None
       THEN EndPaper("pdf", None, results)
       ELSE \E reply \in replies :
              LET r == extract_from_paper(TextOk(pdf_path), Service(reply), paper_metadata)
              IN  IF r.raised
                  THEN HandlerContinues("extraction")
                  ELSE EndPaper("ok", r.v, Append(results, r.v))

\* line 86, and main(): save_results(results, output_path)
SaveResults ==
    /\ pc = "pp_loop"
    /\ i > Len(papers)
    /\ unified' = save_results(results)
    /\ pc' = "done"
    /\ UNCHANGED <<fb_get, papers, i, results, visited, gm_vars, paper_metadata, dl_vars,
                   pdf_path, dir, unit_vars>>

(***************************************************************************)
(* Spec: a run of main().  The collaborators answer from small sets that   *)
(* give every stage of a paper each of its outcomes: the catalog a 404 or  *)
(* a message, the browser no download or a complete one, the PDF GET an    *)
(* error status, the PDF or a page that is no PDF, the reasoning service   *)
(* an error, a document with an array or a document without one.           *)
(***************************************************************************)
RunDOIs == {DoiCryst, DoiMet}

RunResponses(doi) ==
    {Http(404, Malformed)}
    \cup {Http(200, Json(Envelope(m))) :
             m \in {MsgFull(doi), MsgNoUrl(doi), MsgEmptyDateParts(doi)}}

RunReplies ==
    {ServiceError,
     Json(Bare(<<RecComma, RecComma>>)),
     Json(Wrapped("properties", JArr(<<RecBadValue, RecComma>>))),
     Json(Wrapped("properties", None)),
     Json(JObj(<<>>))}

Init ==
    /\ papers \in SeqsUpTo(RunDOIs, MaxPapers)
    /\ i = 1
    /\ pc = "pp_loop"
    /\ results = <<>>
    /\ visited = <<>>
    /\ Fresh
    /\ dir = <<>>
    /\ unified = None
    /\ UnitOff

GetMetadataAttempt == GetMetadataAttemptFrom(RunResponses(doi_clean))
AfterClick == AfterClickWith({"nothing", "completed"})
FallbackDownload == FallbackDownloadWith({"status", "pdf", "page"})
Extract == ExtractFrom(RunReplies)

Next ==
    \/ ProcessNext
    \/ GetMetadataAttempt
    \/ PaperInfo
    \/ CreateDriver
    \/ Navigate
    \/ Click
    \/ DirectPdfUrl
    \/ AfterClick
    \/ LoopExit
    \/ SelectPdf
    \/ Finally
    \/ Fallback
    \/ FallbackDownload
    \/ Extract
    \/ SaveResults

Spec == Init /\ [][Next]_vars

(***************************************************************************)
(* FetchSpec: process_papers calls get_metadata for one paper, the catalog *)
(* answering each request in any of its ways.                              *)
(***************************************************************************)
FetchInit ==
    /\ papers \in {<<d>> : d \in DOIs}
    /\ i = 1
    /\ pc = "pp_loop"
    /\ results = <<>>
    /\ visited = <<>>
    /\ Fresh
    /\ dir = <<>>
    /\ unified = None
    /\ UnitOff

FetchAttempt == GetMetadataAttemptFrom(CatalogResponses(doi_clean))

FetchNext ==
    \/ ProcessNext
    \/ FetchAttempt

FetchSpec == FetchInit /\ [][FetchNext]_vars

(***************************************************************************)
(* DownloadSpec: a run of main() in which the browser and the PDF GET      *)
(* behave in any of their ways, so that download_pdf is called on a        *)
(* directory that earlier calls have written to.  The catalog answers 404  *)
(* or a message with or without URL; the reasoning service fails.          *)
(***************************************************************************)
DownloadDOIs == {DoiCryst, DoiOther}

DownloadResponses(doi) ==
    {Http(404, Malformed), Http(200, Json(Envelope(MsgFull(doi)))),
     Http(200, Json(Envelope(MsgNoUrl(doi))))}

DownloadInit ==
    /\ papers \in SeqsUpTo(DownloadDOIs, MaxDownloads)
    /\ i = 1
    /\ pc = "pp_loop"
    /\ results = <<>>
    /\ visited = <<>>
    /\ Fresh
    /\ dir = <<>>
    /\ unified = None
    /\ UnitOff

DownloadMetadataAttempt == GetMetadataAttemptFrom(DownloadResponses(doi_clean))
BrowserAfterClick == AfterClickWith({"nothing", "started", "completed"})
FallbackDownloadAny == FallbackDownloadWith(PdfGets)
ExtractNothing == ExtractFrom({ServiceError})

DownloadNext ==
    \/ ProcessNext
    \/ DownloadMetadataAttempt
    \/ PaperInfo
    \/ CreateDriver
    \/ Navigate
    \/ Click
    \/ DirectPdfUrl
    \/ BrowserAfterClick
    \/ Poll
    \/ LoopExit
    \/ SelectPdf
    \/ Finally
    \/ Fallback
    \/ FallbackDownloadAny
    \/ ExtractNothing
    \/ SaveResults

DownloadSpec == DownloadInit /\ [][DownloadNext]_vars

(***************************************************************************)
(* WaitSpec: the run of DownloadSpec with a catalog that answers every     *)
(* request with a message without URL, so that the browser alone puts      *)
(* files into the directory, and with the run going on while it has a      *)
(* step to take: the program is sequential, and time.sleep and the calls   *)
(* of the wait loop return.                                                *)
(***************************************************************************)
WaitMetadataAttempt ==
    GetMetadataAttemptFrom({Http(200, Json(Envelope(MsgNoUrl(doi_clean))))})

WaitNext ==
    \/ ProcessNext
    \/ WaitMetadataAttempt
    \/ PaperInfo
    \/ CreateDriver
    \/ Navigate
    \/ Click
    \/ DirectPdfUrl
    \/ BrowserAfterClick
    \/ Poll
    \/ LoopExit
    \/ SelectPdf
    \/ Finally
    \/ Fallback
    \/ FallbackDownloadAny
    \/ ExtractNothing
    \/ SaveResults

WaitSpec == DownloadInit /\ [][WaitNext]_vars /\ WF_vars(WaitNext)

(***************************************************************************)
(* UnitSpec: extract_from_paper applied to one reply of the reasoning      *)
(* service, and lines 56-66 of process_papers applied to one catalog       *)
(* message.  u_stage holds the functions still to be applied.              *)
(***************************************************************************)
UnitMetadata == BuildPaperMetadata(MsgFull(CleanDoi(DoiCryst))).v

UnitInit ==
    /\ papers = <<>>
    /\ i = 1
    /\ pc = "unit"
    /\ results = <<>>
    /\ visited = <<>>
    /\ Fresh
    /\ dir = <<>>
    /\ unified = None
    /\ u_extracted = None
    /\ u_metadata = None
    /\ \/ /\ u_stage = {"extract_from_paper"}
          /\ u_reply \in Replies(RecordPool)
          /\ u_message = <<>>
       \/ /\ u_stage = {"paper_metadata"}
          /\ u_reply = ServiceError
          /\ u_message \in Messages(CleanDoi(DoiCryst))

\* llm_extractor.extract_from_paper(pdf_path, paper_metadata) on a readable PDF
UnitExtract ==
    /\ "extract_from_paper" \in u_stage
    /\ u_extracted' = extract_from_paper(TRUE, Service(u_reply), UnitMetadata)
    /\ u_stage' = u_stage \ {"extract_from_paper"}
    /\ UNCHANGED <<pipeline_vars, u_reply, u_message, u_metadata>>

\* extract_paper_info(metadata) and PaperMetadata(...)
UnitPaperMetadata ==
    /\ "paper_metadata" \in u_stage
    /\ u_metadata' = BuildPaperMetadata(u_message)
    /\ u_stage' = u_stage \ {"paper_metadata"}
    /\ UNCHANGED <<pipeline_vars, u_reply, u_message, u_extracted>>

UnitNext ==
    \/ UnitExtract
    \/ UnitPaperMetadata

UnitSpec == UnitInit /\ [][UnitNext]_vars

(***************************************************************************)
(* Properties of a run of main()  (Spec).                                  *)
(***************************************************************************)
\* the data of the visits that ended "ok", in the order of the visits
RECURSIVE Successes(_)
Successes(vs) ==
    IF vs = <<>> THEN <<>>
    ELSE (IF Head(vs).stage = "ok" THEN <<Head(vs).data>> ELSE <<>>) \o Successes(Tail(vs))

\* C1: process_papers visits every input paper, in input order, whatever
\* happened to the papers before it, and returns exactly the records of the
\* papers whose metadata, download and extraction all succeeded, in input
\* order; a paper that failed at some stage contributes nothing.
C1_EveryPaperVisitedSuccessesReturned ==
    /\ results = Successes(visited)
    /\ Len(visited) <= Len(papers)
    /\ \A k \in 1..Len(visited) : visited[k].doi = papers[k]
    /\ pc = "done" => Len(visited) = Len(papers)

\* a paper that failed is followed by a paper that succeeded
C1_Witness ==
    /\ pc = "done"
    /\ Len(papers) = 2
    /\ visited[1].stage \in {"metadata", "paper_metadata", "pdf", "extraction"}
    /\ visited[2].stage = "ok"
    /\ Len(results) = 1

\* the property counts of the records of the written document, summed
RECURSIVE SumOfDocument(_)
SumOfDocument(data) ==
    IF data = <<>> THEN 0
    ELSE Len(Item(Head(data).o, "mechanical_properties").a) + SumOfDocument(Tail(data))

\* C2: in the document save_results writes, papers_processed is the number
\* of records of data, which are the records passed in, and
\* total_properties_extracted is the sum of the lengths of their
\* mechanical_properties.
C2_CountsMatchData ==
    pc = "done" =>
        LET doc == unified.o
            data == Item(doc, "data").a
        IN  /\ Len(data) = Len(results)
            /\ Item(doc, "papers_processed") = JNum(Len(data), 0)
            /\ Item(doc, "total_properties_extracted") = JNum(SumOfDocument(data), 0)
            /\ \A k \in 1..Len(data) :
                 Len(Item(data[k].o, "mechanical_properties").a)
                     = Len(results[k].mechanical_properties)

\* two records with different numbers of properties
C2_Witness ==
    /\ pc = "done"
    /\ Len(results) = 2
    /\ Len(results[1].mechanical_properties) = 2
    /\ Len(results[2].mechanical_properties) = 1
    /\ Item(unified.o, "papers_processed") = JNum(2, 0)
    /\ Item(unified.o, "total_properties_extracted") = JNum(3, 0)

(***************************************************************************)
(* Properties of extract_from_paper on one reply  (UnitSpec).              *)
(***************************************************************************)
\* extract_from_paper has been applied to u_reply
Extracted == u_stage = {} /\ u_extracted # None

\* C3: when a call of the reasoning service fails (a service or network
\* error, or content that is not JSON) and fewer than 3 calls have been
\* made, extract_properties calls again before it returns: with a service
\* that fails every time, 3 calls are made.
C3_FailedCallIsRetried ==
    (Extracted /\ u_reply \in {ServiceError, Malformed}) =>
        u_extracted.calls = stop_after_attempt

\* a parsed document of one of the accepted shapes: a bare array, or an
\* object with an array under `properties`, under `data`, or, with neither
\* key, under some other key
AcceptedShape(doc) ==
    \/ doc.t = "arr"
    \/ /\ doc.t = "obj"
       /\ IF HasKey(doc.o, "properties") THEN Item(doc.o, "properties").t = "arr"
          ELSE IF HasKey(doc.o, "data") THEN Item(doc.o, "data").t = "arr"
          ELSE \E k \in 1..Len(doc.o) : doc.o[k][2].t = "arr"

\* C4: for a reply that parses as JSON but has none of the accepted shapes,
\* extract_properties yields the empty sequence and extract_from_paper
\* completes with zero properties; the paper does not fail.
C4_OtherShapesYieldNoRecords ==
    (Extracted /\ u_reply.k = "json" /\ ~AcceptedShape(u_reply.v)) =>
        /\ u_extracted.raw = JArr(<<>>)
        /\ ~u_extracted.raised
        /\ u_extracted.v.mechanical_properties = <<>>

\* C8: a bare array, an object with the array under `properties` and an
\* object with the array under `data` all make extract_properties return
\* that array: the same records in the same order.
C8_SameRecordsInEveryShape ==
    (Extracted /\ u_reply.k = "json") =>
        LET doc == u_reply.v
            wrapped(key) == doc.t = "obj" /\ Len(doc.o) = 1 /\ doc.o[1][1] = key
                            /\ doc.o[1][2].t = "arr"
        IN  /\ doc.t = "arr" => u_extracted.raw = doc
            /\ wrapped("properties") => u_extracted.raw = doc.o[1][2]
            /\ wrapped("data") => u_extracted.raw = doc.o[1][2]

\* two records under `data`
C8_Witness ==
    /\ Extracted
    /\ u_reply = Json(Wrapped("data", JArr(<<RecOk, RecComma>>)))
    /\ u_extracted.raw = JArr(<<RecOk, RecComma>>)
    /\ extract_properties(Service(Json(Bare(<<RecOk, RecComma>>)))).v = u_extracted.raw
    /\ extract_properties(Service(Json(Wrapped("properties", JArr(<<RecOk, RecComma>>))))).v
           = u_extracted.raw

\* The number a raw record's `value` comes to: a number as it is, a str
\* read as a decimal number once its thousands separators are removed.
CoercedValue(rec) ==
    LET value == Get(rec.o, "value", None)
    IN  IF value.t = "num" THEN [ok |-> TRUE, v |-> Normal(value.m, value.e)]
        ELSE IF value.t = "str" THEN ParseFloat(Replace(value.s, ",", <<>>))
        ELSE [ok |-> FALSE, v |-> None]

\* the record's value coerces and its required fields are there as strings
RequiredValid(rec) ==
    /\ rec.t = "obj"
    /\ CoercedValue(rec).ok
    /\ \A k \in {"material", "property_name", "unit"} : Get(rec.o, k, None).t = "str"

\* the record's optional fields, where given, have the types of the schema
OptionalValid(rec) ==
    /\ rec.t = "obj"
    /\ \A k \in {"condition", "temperature_unit"} :
         Get(rec.o, k, None).t \in {"null", "str"}
    /\ \A k \in {"temperature", "strain_rate"} :
         LET x == Get(rec.o, k, None)
         IN  x.t \in {"null", "num"} \/ (x.t = "str" /\ ParseFloat(x.s).ok)
    /\ Get(rec.o, "additional_info", None).t \in {"null", "obj"}

EveryFieldValid(rec) == RequiredValid(rec) /\ OptionalValid(rec)

\* props are the records of kept, one for one and in order, with the
\* coerced value
SameRecords(props, kept) ==
    /\ Len(props) = Len(kept)
    /\ \A k \in 1..Len(props) :
         /\ props[k].material = Item(kept[k].o, "material")
         /\ props[k].property_name = Item(kept[k].o, "property_name")
         /\ props[k].unit = Item(kept[k].o, "unit")
         /\ props[k].value = CoercedValue(kept[k]).v
         /\ Get(kept[k].o, "value", None) = JStr(<<"1", ",", "2", "3", "4", ".", "5">>)
                => props[k].value = JNum(12345, 1)

\* extract_properties returned a list
ExtractedList == Extracted /\ u_extracted.raw.t = "arr"

\* C9 as stated: a record is dropped when the coercion of its value or the
\* validation of its required fields fails, and every other record is kept,
\* in order.
C9_KeptIffValueAndRequiredValid ==
    ExtractedList =>
        /\ ~u_extracted.raised
        /\ SameRecords(u_extracted.v.mechanical_properties,
                       SelectSeq(u_extracted.raw.a, RequiredValid))

\* C9: a record is dropped, without raising, when the coercion of its value
\* or the validation of any of its fields, required or optional, fails;
\* every other record is kept: mechanical_properties is the subsequence of
\* these records in their original order, "1,234.5" read as 1234.5.
C9_KeptIffEveryFieldValid ==
    ExtractedList =>
        /\ ~u_extracted.raised
        /\ SameRecords(u_extracted.v.mechanical_properties,
                       SelectSeq(u_extracted.raw.a, EveryFieldValid))

\* a record whose value does not coerce is dropped, the one after it kept
C9_Witness ==
    /\ ExtractedList
    /\ u_extracted.raw.a = <<RecBadValue, RecComma>>
    /\ Len(u_extracted.v.mechanical_properties) = 1
    /\ u_extracted.v.mechanical_properties[1].value = JNum(12345, 1)

(***************************************************************************)
(* Properties of the PaperMetadata built from one message  (UnitSpec).     *)
(***************************************************************************)
\* lines 56-66 have been applied to u_message and built a PaperMetadata
Built == u_stage = {} /\ u_metadata # None /\ ~u_metadata.raised

\* the message has a print-publication date
HasPrintDate(m) ==
    /\ HasKey(m, "published-print")
    /\ HasKey(Item(m, "published-print").o, "date-parts")

\* C10: without a print-publication date (no `published-print`, or one
\* without `date-parts`) the PaperMetadata has publication_date null, not a
\* string; with one, publication_date is a string, the first date-parts
\* entry's leading element.
C10_NoPrintDateGivesNull ==
    Built =>
        IF HasPrintDate(u_message)
        THEN LET first == Item(Item(u_message, "published-print").o, "date-parts").a[1].a
             IN  first # <<>> =>
                     u_metadata.v.publication_date = JStr(IntToStr(first[1].m))
        ELSE u_metadata.v.publication_date = None

(***************************************************************************)
(* Properties of one call of get_metadata  (FetchSpec).                    *)
(***************************************************************************)
\* get_metadata has returned to, or raised into, process_papers
Returned == pc = "pp_info"

\* the catalog answered request k with status 404
NotFound(k) == gm_log[k].resp.k = "http" /\ gm_log[k].resp.status = 404

\* C5 as stated: a 404 is not retried: when the catalog answers the first
\* request 404, that request stays the only one and the failure is with
\* process_papers at once.
C5_NotFoundIsNotRetried ==
    (gm_log # <<>> /\ NotFound(1)) =>
        /\ Len(gm_log) = 1
        /\ Returned
        /\ gm_ret.raised

\* C5: a 404 is retried like any other failure: after a 404 on one of the
\* first two requests the call goes on to a further request, and when the
\* catalog answers every request 404 the failure is with process_papers
\* only after three requests.
C5_NotFoundIsRetried ==
    /\ \A k \in 1..Len(gm_log) :
         (NotFound(k) /\ k < stop_after_attempt) =>
             \/ Len(gm_log) > k
             \/ pc = "gm_attempt" /\ attempt_number = k + 1
    /\ (Returned /\ \A k \in 1..Len(gm_log) : NotFound(k)) =>
           /\ Len(gm_log) = stop_after_attempt
           /\ gm_ret.raised

\* three requests, each answered 404, and then the failure
C5_Witness ==
    /\ Returned
    /\ Len(gm_log) = 3
    /\ \A k \in 1..3 : NotFound(k)
    /\ gm_ret.raised

\* C6: get_metadata makes at most 3 requests per call; a further request is
\* made only after a failed one and only while fewer than 3 have been made;
\* it returns the `message` of the first request that succeeds, and raises
\* only after the third failed request in a row.
C6_AtMostThreeAttempts ==
    /\ Len(gm_log) <= stop_after_attempt
    /\ \A k \in 1..(Len(gm_log) - 1) : gm_log[k].raised
    /\ pc = "gm_attempt" =>
           /\ attempt_number = Len(gm_log) + 1
           /\ attempt_number <= stop_after_attempt
           /\ \A k \in 1..Len(gm_log) : gm_log[k].raised
    /\ Returned =>
           /\ gm_log # <<>>
           /\ IF gm_ret.raised
              THEN /\ Len(gm_log) = stop_after_attempt
                   /\ \A k \in 1..Len(gm_log) : gm_log[k].raised
              ELSE /\ ~gm_log[Len(gm_log)].raised
                   /\ gm_log[Len(gm_log)].resp.k = "http"
                   /\ gm_log[Len(gm_log)].resp.status = 200
                   /\ gm_ret.v = Item(gm_log[Len(gm_log)].resp.body.v.o, "message")

\* two failed requests, then the message of the third
C6_Witness ==
    /\ Returned
    /\ Len(gm_log) = 3
    /\ gm_log[1].raised /\ gm_log[2].raised
    /\ ~gm_ret.raised
    /\ gm_ret.v = JObj(MsgFull(doi_clean))

(***************************************************************************)
(* Properties of download_pdf  (DownloadSpec).                             *)
(***************************************************************************)
\* the try statement of download_pdf is over: the fallback is running, or
\* download_pdf has returned
AfterInteractive ==
    \/ pc \in {"fb_start", "fb_got", "pp_extract"}
    \/ pc = "gm_attempt" /\ gm_caller = "fallback"

\* C7: a driver that was created is quit exactly once on every way out of
\* the interactive strategy (the file returned, a click but no PDF, nothing
\* to click, an exception), before the fallback starts and before
\* download_pdf returns; where none was created there is no quit.
C7_DriverQuitExactlyOnce ==
    /\ quits <= 1
    /\ driver = "live" => quits = 0
    /\ AfterInteractive =>
           \/ driver = "None" /\ quits = 0
           \/ driver = "quit" /\ quits = 1

\* download_pdf has returned the path of the file it found; its driver is
\* quit
C7_Witness ==
    /\ pc = "pp_extract"
    /\ left = "return"
    /\ pdf_path # None
    /\ driver = "quit"
    /\ quits = 1

\* the identifier is one the fallback covers
Eligible == Contains(doi_clean, "10.3390")

\* C11: an exception raised in the interactive strategy does not leave
\* download_pdf: after the finally clause the fallback is called, and what
\* download_pdf returns is the fallback's result: the path of the file
\* written when the GET of the PDF succeeded, and None when the identifier
\* is not eligible, the metadata or its URL is missing, or the GET failed
\* (network error, error status, broken stream).
C11_ExceptionFallsBack ==
    [][left = "except" =>
          /\ pc = "dl_finally" =>
                 /\ pc' = "fb_start"
                 /\ visited' = visited
                 /\ results' = results
          /\ pc = "fb_start" =>
                 IF Eligible
                 THEN pc' = "gm_attempt" /\ gm_caller' = "fallback"
                 ELSE pc' = "pp_extract" /\ pdf_path' = None /\ fb_get' = "none"
          /\ pc = "fb_got" =>
                 /\ pc' = "pp_extract"
                 /\ (gm_ret.raised \/ ~HasKey(gm_ret.v.o, "URL")) => fb_get' = "none"
                 /\ fb_get' \in {"none", "neterr", "status", "broken"} => pdf_path' = None
                 /\ fb_get' \in {"pdf", "page"} =>
                        /\ pdf_path' = Path(filename)
                        /\ Exists(dir', filename)
                        /\ Latest(dir').name = filename]_vars

\* the browser raised, the fallback fetched the PDF and download_pdf has
\* returned its path
C11_Witness ==
    /\ pc = "pp_extract"
    /\ left = "except"
    /\ driver = "quit"
    /\ fb_get = "pdf"
    /\ pdf_path = Path(filename)

\* C12: when the interactive strategy returns a path for the paper, the
\* file at that path holds content downloaded for that paper: a PDF that an
\* earlier paper, or an earlier fallback write, left in the directory is
\* never renamed to this paper's filename and returned as its PDF.
C12_ReturnedFileIsThePapers ==
    (pc = "pp_extract" /\ left = "return") =>
        /\ pdf_path = Path(filename)
        /\ Exists(dir, filename)
        /\ FileAt(dir, filename).of = doi_clean

(***************************************************************************)
(* Properties of the wait loop of download_pdf  (WaitSpec).                 *)
(***************************************************************************)
\* C13: the wait loop always ends: the directory is checked again for
\* in-progress markers at most 30 times; the loop is left as soon as a
\* check finds no marker, and after the 30th check though a marker is
\* still there; the selection of the PDF comes next (or, where a check
\* itself raised, the exception handler).
C13_WaitLoopEnds ==
    /\ [](wait_time <= max_wait)
    /\ [][pc = "dl_poll" =>
             /\ (~temp_files \/ wait_time = max_wait) => pc' = "dl_select"
             /\ pc' = "dl_poll" =>
                    /\ temp_files
                    /\ wait_time' = wait_time + 1
                    /\ temp_files' = (TempFiles(dir') # <<>>)
             /\ pc' \in {"dl_poll", "dl_select", "dl_finally"}
             /\ pc' = "dl_finally" => left' = "except"]_vars
    /\ (pc = "dl_poll") ~> (pc = "dl_select" \/ (pc = "dl_finally" /\ left = "except"))

\* the loop is over after the 30th check, a marker still in the directory
C13_Witness ==
    /\ pc = "dl_select"
    /\ wait_time = max_wait
    /\ temp_files
    /\ TempFiles(dir) # <<>>


=============================================================================
